---- MODULE Spec2Model ----
(***************************************************************************)
(* CN Domain Categorizer (categorize_cn_domains.py).                       *)
(*                                                                         *)
(* A Python str is modelled as a sequence of Unicode code points, so that  *)
(* lower(), strip(), isascii(), the regular expression ^xn-- and the       *)
(* Punycode conversion are computed on characters.  A bucket label is a    *)
(* TLA+ string (the code only compares, slices and counts labels).         *)
(***************************************************************************)
EXTENDS Integers, Sequences, FiniteSets, TLC

(***************************************************************************)
(* Bounds of the model.                                                    *)
(***************************************************************************)
\* longest label enumerated exhaustively over Alphabet by the classify harness
MaxLabelLen == 4
\* largest number of rows of an input table (3 loop checkpoints: i = 0, 50, 100)
MaxRows == 101
\* largest rotation of the row pattern of an input table
MaxSeed == 1

(***************************************************************************)
(* Text primitives.                                                        *)
(***************************************************************************)
Min(a, b) == IF a <= b THEN a ELSE b

\* the sequence f as an explicit tuple (each element evaluated once)
Tup(f) == SubSeq(f, 1, Len(f))

\* the ASCII characters the model spells strings with, and their code points
AsciiChars == "-.0123456789ABCDEFGHIJKLMNOPQRSTUVWXYZabcdefghijklmnopqrstuvwxyz "
AsciiCodes ==
  <<45, 46>> \o Tup([k \in 1..10 |-> 47 + k]) \o Tup([k \in 1..26 |-> 64 + k])
  \o Tup([k \in 1..26 |-> 96 + k]) \o <<32>>

\* ord(ch) of a one-character TLA+ string
Ord(ch) == AsciiCodes[CHOOSE k \in 1..Len(AsciiChars) : SubSeq(AsciiChars, k, k) = ch]

\* the Python str spelled by an ASCII TLA+ string
U(str) == Tup([k \in 1..Len(str) |-> Ord(SubSeq(str, k, k))])

DOT == U(".")[1]
HYPHEN == U("-")[1]

\* non-ASCII and control characters used by the inputs
E_ACUTE == <<233>>            \* U+00E9  e with acute, lower case
E_ACUTE_UPPER == <<201>>      \* U+00C9  E with acute, upper case
SOH == <<1>>                  \* U+0001  an ASCII control character
ZHONGGUO == <<20013, 22269>>  \* U+4E2D U+56FD  (simplified)
ZHONGGUO_T == <<20013, 22283>> \* U+4E2D U+570B (traditional)
LIZI == <<20363, 23376>>      \* U+4F8B U+5B50  ("example")

RECURSIVE Join(_)
\* ".".join(labels)
Join(labels) ==
  IF Len(labels) = 0 THEN <<>>
  ELSE IF Len(labels) = 1 THEN labels[1]
  ELSE labels[1] \o <<DOT>> \o Join(Tail(labels))

RECURSIVE SplitFrom(_, _, _)
SplitFrom(s, k, cur) ==
  IF k > Len(s) THEN <<cur>>
  ELSE IF s[k] = DOT THEN <<cur>> \o SplitFrom(s, k + 1, <<>>)
  ELSE SplitFrom(s, k + 1, Append(cur, s[k]))

\* s.split(".")
Split(s) == SplitFrom(s, 1, <<>>)

\* str.lower() of one code point: A-Z and the Latin-1 capitals have a lower case
\* 32 above; the other code points of the model have none
LowerCp(c) ==
  IF c \in 65..90 \/ c \in 192..214 \/ c \in 216..222 THEN c + 32 ELSE c

\* str.lower()
lower(s) == Tup([k \in 1..Len(s) |-> LowerCp(s[k])])

\* str.isascii()
isascii(s) == \A k \in 1..Len(s) : s[k] < 128

IsSpace(c) == c \in {9, 10, 11, 12, 13, 32}

RECURSIVE lstrip(_)
lstrip(s) == IF Len(s) > 0 /\ IsSpace(s[1]) THEN lstrip(Tail(s)) ELSE s

RECURSIVE rstrip(_)
rstrip(s) ==
  IF Len(s) > 0 /\ IsSpace(s[Len(s)]) THEN rstrip(SubSeq(s, 1, Len(s) - 1)) ELSE s

\* str.strip()
strip(s) == rstrip(lstrip(s))

StartsWith(s, p) == Len(s) >= Len(p) /\ SubSeq(s, 1, Len(p)) = p

(***************************************************************************)
(* Punycode (RFC 3492), the encoding behind idna.encode: label.encode      *)
(* ("punycode").                                                           *)
(***************************************************************************)
PunyDigit(d) == IF d < 26 THEN 97 + d ELSE 22 + d

PunyT(k, bias) == IF k <= bias THEN 1 ELSE IF k >= bias + 26 THEN 26 ELSE k - bias

RECURSIVE PunyVarInt(_, _, _)
\* the generalized variable-length integer of q
PunyVarInt(q, k, bias) ==
  LET t == PunyT(k, bias)
  IN  IF q < t THEN <<PunyDigit(q)>>
      ELSE <<PunyDigit(t + ((q - t) % (36 - t)))>>
           \o PunyVarInt((q - t) \div (36 - t), k + 36, bias)

RECURSIVE PunyAdaptLoop(_, _)
PunyAdaptLoop(delta, k) ==
  IF delta > 455 THEN PunyAdaptLoop(delta \div 35, k + 36)
  ELSE k + ((36 * delta) \div (delta + 38))

PunyAdapt(delta, numpoints, first) ==
  LET d1 == IF first THEN delta \div 700 ELSE delta \div 2
  IN  PunyAdaptLoop(d1 + (d1 \div numpoints), 0)

RECURSIVE PunyInner(_, _, _, _)
\* one pass over the input for the code point st.n
PunyInner(input, b, idx, st) ==
  IF idx > Len(input) THEN st
  ELSE LET c == input[idx]
       IN  IF c < st.n
             THEN PunyInner(input, b, idx + 1, [st EXCEPT !.delta = @ + 1])
           ELSE IF c = st.n
             THEN PunyInner(input, b, idx + 1,
                    [n |-> st.n, delta |-> 0, h |-> st.h + 1,
                     bias |-> PunyAdapt(st.delta, st.h + 1, st.h = b),
                     out |-> st.out \o PunyVarInt(st.delta, 36, st.bias)])
           ELSE PunyInner(input, b, idx + 1, st)

RECURSIVE PunyOuter(_, _, _)
PunyOuter(input, b, st) ==
  IF st.h >= Len(input) THEN st.out
  ELSE LET m == CHOOSE c \in {input[k] : k \in 1..Len(input)} :
                  /\ c >= st.n
                  /\ \A k \in 1..Len(input) : input[k] >= st.n => c <= input[k]
           st1 == [st EXCEPT !.delta = @ + (m - st.n) * (st.h + 1), !.n = m]
           st2 == PunyInner(input, b, 1, st1)
       IN  PunyOuter(input, b, [st2 EXCEPT !.delta = @ + 1, !.n = @ + 1])

\* label.encode("punycode")
punycode(input) ==
  LET basic == SelectSeq(input, LAMBDA c : c < 128)
      b == Len(basic)
  IN  PunyOuter(input, b,
        [n |-> 128, delta |-> 0, bias |-> 72, h |-> b,
         out |-> IF b > 0 THEN Append(basic, HYPHEN) ELSE basic])

(***************************************************************************)
(* idna.encode (package idna, IDNA 2008), as called with its defaults:     *)
(* no UTS 46 remapping, so nothing is case-folded before validation.       *)
(***************************************************************************)
XN == U("xn--")

\* U-labels whose A-label form occurs in the model: the internationalized
\* entries of the public suffix list and one registrable name.  Punycode is
\* injective, so an A-label decodes to a member of this set exactly when its
\* text is "xn--" followed by the member's encoding.  Every other xn-- label the
\* model feeds in (at most MaxLabelLen + 1 characters over Alphabet) is no valid
\* Punycode, so decoding over this set decides the model's inputs exactly.
KnownULabels == {ZHONGGUO, ZHONGGUO_T, LIZI}

\* idnadata: code points of class PVALID (those the model uses): a-z, 0-9, "-",
\* the lower-case Latin-1 letters and the CJK unified ideographs.  Upper-case
\* letters and control characters are DISALLOWED.
IsPVALID(c) ==
  \/ c \in 97..122
  \/ c \in 48..57
  \/ c = HYPHEN
  \/ c \in 223..246
  \/ c \in 248..255
  \/ c \in 19968..40956

\* idna.core.check_label: TRUE when the label passes
check_label(label) ==
  /\ Len(label) > 0
  /\ ~(Len(label) >= 4 /\ label[3] = HYPHEN /\ label[4] = HYPHEN)
  /\ label[1] # HYPHEN
  /\ label[Len(label)] # HYPHEN
  /\ \A k \in 1..Len(label) : IsPVALID(label[k])

\* the U-labels an A-label decodes to (bytes.decode("punycode")): none or one
KnownALabels == {<<XN \o punycode(u), u>> : u \in KnownULabels}

PunyDecoded(lowered) == {p[2] : p \in {q \in KnownALabels : q[1] = lowered}}

\* idna.core.ulabel on an ASCII label: TRUE when it validates
ulabel_ok(label) ==
  LET lowered == lower(label)
  IN  IF StartsWith(lowered, XN)
        THEN /\ Len(lowered) > Len(XN)
             /\ lowered[Len(lowered)] # HYPHEN
             /\ \E u \in PunyDecoded(lowered) : check_label(u)
        ELSE check_label(lowered)

\* idna.core.alabel: [ok, out]
alabel(label) ==
  IF isascii(label)
    THEN [ok |-> ulabel_ok(label) /\ Len(label) <= 63, out |-> label]
    ELSE LET enc == XN \o punycode(label)
         IN  [ok |-> check_label(label) /\ Len(enc) <= 63, out |-> enc]

\* idna.encode(s): [ok, ace, err]; err is the class of the exception raised
idna_encode(s) ==
  LET labels0 == Split(s)
      trailing_dot == Len(labels0) > 1 /\ labels0[Len(labels0)] = <<>>
      labels == IF trailing_dot THEN SubSeq(labels0, 1, Len(labels0) - 1) ELSE labels0
      enc == Tup([k \in 1..Len(labels) |-> alabel(labels[k])])
      ace == Join(Tup([k \in 1..Len(labels) |-> enc[k].out])
                  \o (IF trailing_dot THEN << <<>> >> ELSE <<>>))
      ok == /\ labels0 # << <<>> >>
            /\ \A k \in 1..Len(labels) : enc[k].ok /\ Len(enc[k].out) > 0
            /\ Len(ace) <= (IF trailing_dot THEN 254 ELSE 253)
  IN  [ok |-> ok, ace |-> IF ok THEN ace ELSE <<>>,
       err |-> IF ok THEN "" ELSE "IDNAError"]

(***************************************************************************)
(* tldextract.extract: public-suffix-list lookup.                          *)
(***************************************************************************)
\* the rules of the public suffix list the model carries, as label sequences
PSL ==
  { <<U("cn")>>, <<U("com"), U("cn")>>, <<U("net"), U("cn")>>,
    <<U("org"), U("cn")>>, <<U("xj"), U("cn")>>,
    <<ZHONGGUO>>, <<ZHONGGUO_T>>, <<U("com")>> }

\* tldextract._decode_punycode: the key a label is looked up under
\* (idna.decode of the lower-cased label, or the lower-cased label itself)
decode_punycode(label) ==
  LET lowered == lower(label)
      us == {u \in PunyDecoded(lowered) : check_label(u)}
  IN  IF StartsWith(lowered, XN) /\ us # {} THEN CHOOSE u \in us : TRUE ELSE lowered

IsSuffixOf(path, rule) ==
  /\ Len(path) <= Len(rule)
  /\ SubSeq(rule, Len(rule) - Len(path) + 1, Len(rule)) = path

RECURSIVE TrieWalk(_, _, _, _)
\* the loop of _PublicSuffixListTLDExtractor.suffix_index: labels[j] is next,
\* i is the start (0-based) of the longest rule matched, path the labels matched
TrieWalk(labels, j, i, path) ==
  IF j = 0 THEN i
  ELSE LET node == <<decode_punycode(labels[j])>> \o path
       IN  IF \E rule \in PSL : IsSuffixOf(node, rule)
             THEN TrieWalk(labels, j - 1, IF node \in PSL THEN j - 1 ELSE i, node)
             ELSE i

suffix_index(labels) == TrieWalk(labels, Len(labels), Len(labels), <<>>)

RECURSIVE rstrip_dots(_)
rstrip_dots(s) ==
  IF Len(s) > 0 /\ s[Len(s)] = DOT THEN rstrip_dots(SubSeq(s, 1, Len(s) - 1)) ELSE s

\* tldextract.extract(url) for a url that is a bare host name:
\* [subdomain, domain, suffix], the text of the input kept as it is
extract(url) ==
  LET netloc == rstrip_dots(strip(url))
      labels == Split(netloc)
      idx == suffix_index(labels)
  IN  [suffix |-> IF idx # Len(labels) THEN Join(SubSeq(labels, idx + 1, Len(labels)))
                  ELSE <<>>,
       subdomain |-> IF idx >= 2 THEN Join(SubSeq(labels, 1, idx - 1)) ELSE <<>>,
       domain |-> IF idx > 0 THEN labels[idx] ELSE <<>>]

(***************************************************************************)
(* Bucket definitions and the classifier.                                  *)
(***************************************************************************)
COLUMN == "Domain Name"

BUCKETS ==
  << "IDN.IDN", "IDN.XN--FIQS8S", "ASCII.XN--FIQS8S",
     "ASCII.CN", "IDN.CN", ".COM.CN", ".NET.CN", ".ORG.CN" >>

ALL_BUCKETS == BUCKETS \o << "UNCLASSIFIED" >>

\* the strings the classifier compares with
CN == U("cn")
DOT_CN == U(".cn")
COM_CN == U("com.cn")
NET_CN == U("net.cn")
ORG_CN == U("org.cn")
XN_FIQS8S == U("xn--fiqs8s")
XN_FIQZ9S == U("xn--fiqz9s")

\* re.compile(r"^xn--", re.I).match(label)
PUNY_match(label) == StartsWith(lower(label), XN)

PUNY_TLDS == {XN_FIQS8S, XN_FIQZ9S}

GENERIC_SLD ==
  (COM_CN :> ".COM.CN") @@ (NET_CN :> ".NET.CN") @@ (ORG_CN :> ".ORG.CN")

is_idn_ascii_only(label) == PUNY_match(label)

is_idn(label) == (~isascii(label)) \/ PUNY_match(label)

EndsWith(s, p) == Len(s) >= Len(p) /\ SubSeq(s, Len(s) - Len(p) + 1, Len(s)) = p

\* a result of classify: the bucket returned, or an exception left uncaught
Return(bucket) == [raised |-> FALSE, bucket |-> bucket]
Raise == [raised |-> TRUE, bucket |-> ""]

rules123_cn_first(sld, suffix) ==
  IF suffix = CN \/ EndsWith(suffix, DOT_CN)
    THEN IF is_idn(sld) THEN "IDN.CN" ELSE "ASCII.CN"
  ELSE IF suffix \in DOMAIN GENERIC_SLD THEN GENERIC_SLD[suffix]
  ELSE IF suffix \in PUNY_TLDS
    THEN IF is_idn(sld) THEN "IDN.XN--FIQS8S" ELSE "ASCII.XN--FIQS8S"
  ELSE ""

\* rules 1-3 of classify: the bucket, or "" when none of them fires
rules123(sld, suffix) ==
  IF suffix \in DOMAIN GENERIC_SLD THEN GENERIC_SLD[suffix]
  ELSE IF suffix \in PUNY_TLDS
    THEN IF is_idn(sld) THEN "IDN.XN--FIQS8S" ELSE "ASCII.XN--FIQS8S"
  ELSE IF suffix = CN \/ EndsWith(suffix, DOT_CN)
    THEN IF is_idn(sld) THEN "IDN.CN" ELSE "ASCII.CN"
  ELSE ""

rule4_no_except(domain) ==
  LET enc == idna_encode(domain)
      ext2 == extract(enc.ace)
  IN  IF ~enc.ok THEN Raise
      ELSE IF ext2.suffix \in PUNY_TLDS /\ is_idn(ext2.domain) THEN Return("IDN.IDN")
      ELSE Return("UNCLASSIFIED")

rule4_no_label_test(domain) ==
  LET enc == idna_encode(domain)
      ext2 == extract(enc.ace)
  IN  IF ~enc.ok THEN (IF enc.err = "IDNAError" THEN Return("UNCLASSIFIED") ELSE Raise)
      ELSE IF ext2.suffix \in PUNY_TLDS THEN Return("IDN.IDN")
      ELSE Return("UNCLASSIFIED")

\* rule 4 and the catch-all of classify (the try block and the final return)
rule4(domain) ==
  LET enc == idna_encode(domain)
      ext2 == extract(enc.ace)
  IN  IF ~enc.ok THEN (IF enc.err = "IDNAError" THEN Return("UNCLASSIFIED") ELSE Raise)
      ELSE IF ext2.suffix \in PUNY_TLDS /\ is_idn(ext2.domain) THEN Return("IDN.IDN")
      ELSE Return("UNCLASSIFIED")

classify(domain) ==
  LET ext == extract(lower(domain))
      hit == rules123(ext.domain, ext.suffix)
  IN  IF hit # "" THEN Return(hit) ELSE rule4(domain)

(***************************************************************************)
(* multi_sheet_write and the helpers of Worker.run.                        *)
(***************************************************************************)
Range(f) == {f[k] : k \in DOMAIN f}

\* bucket[:31]
sheet_name(bucket) == SubSeq(bucket, 1, Min(31, Len(bucket)))

\* df[df["bucket"] == bucket]: the rows (by position) labelled bucket, in order
df_select(col, bucket) ==
  SelectSeq(Tup([k \in 1..Len(col) |-> k]), LAMBDA k : col[k] = bucket)

empty_never(sub) == FALSE

\* DataFrame.empty
empty(sub) == Len(sub) = 0

value_counts_skip_first(col) ==
  [b \in {col[k] : k \in 2..Len(col)} |-> Cardinality({k \in 2..Len(col) : col[k] = b})]

\* df["bucket"].value_counts().to_dict()
value_counts(col) ==
  [b \in Range(col) |-> Cardinality({k \in 1..Len(col) : col[k] = b})]

\* dict.get(key, default)
get(dict, key, default) == IF key \in DOMAIN dict THEN dict[key] ELSE default

EmptyDict == [b \in {} |-> 0]

percent_after_chunk(i, total) ==
  {((i + 50) * 100) \div (IF total > 1 THEN total ELSE 1)}

\* int(i / max(total, 1) * 100): the quotient is a binary float, so where the
\* exact value is a whole number k >= 1 the product may fall just below k and
\* truncate to k - 1 (int(1450 / 5000 * 100) is 28); otherwise it is the floor
percent(i, total) ==
  LET t == IF total > 1 THEN total ELSE 1
      q == (i * 100) \div t
  IN  {q} \cup (IF (i * 100) % t = 0 /\ q >= 1 THEN {q - 1} ELSE {})

(***************************************************************************)
(* Inputs.                                                                 *)
(***************************************************************************)
LIZI_ZHONGGUO == LIZI \o U(".") \o ZHONGGUO
XN_LIZI_ZHONGGUO == U("xn--fsqu00a.xn--fiqs8s")

\* cells of the "Domain Name" column, as read (before astype(str).str.strip())
DomainList ==
  << U(" example.cn "),
     U("EXAMPLE.XJ.CN "),
     U("example.com.cn"),
     LIZI_ZHONGGUO,
     XN_LIZI_ZHONGGUO,
     U("example.xn--fiqs8s"),
     LIZI \o U(".cn"),
     U("shop.net.cn"),
     U("club.org.cn"),
     U("notadomain"),
     U("nan") >>

\* the input tables: one unreadable file, one table without the column, and the
\* tables of 0..MaxRows rows whose cells rotate through DomainList
InputFiles ==
  { [readable |-> FALSE, hasColumn |-> FALSE, total |-> 0, seed |-> 0],
    [readable |-> TRUE, hasColumn |-> FALSE, total |-> 2, seed |-> 0] }
  \cup { [readable |-> TRUE, hasColumn |-> TRUE, total |-> t, seed |-> sd] :
           t \in 0..MaxRows, sd \in 0..MaxSeed }

\* the cell of row k (0-based) of an input table
Cell(f, k) == DomainList[((f.seed + k) % Len(DomainList)) + 1]

\* characters the harness builds labels from: x N - (ASCII), e-acute in both
\* cases and a control character
Alphabet == {U("x")[1], U("N")[1], HYPHEN, E_ACUTE[1], E_ACUTE_UPPER[1], SOH[1]}

RECURSIVE StringsUpTo(_)
\* every string over Alphabet of at most n characters
StringsUpTo(n) ==
  IF n = 0 THEN { <<>> }
  ELSE LET shorter == StringsUpTo(n - 1)
       IN  shorter \cup {Append(w, c) : w \in shorter, c \in Alphabet}

HarnessHeads ==
  StringsUpTo(MaxLabelLen)
  \cup { U("example"), U("EXAMPLE"), U("xn--fsqu00a"), U("XN--FSQU00A"), LIZI,
         U("www.example"), E_ACUTE_UPPER \o U(".") \o LIZI }

HarnessTails ==
  { <<>>, U(".cn"), U(".com.cn"), U(".NET.CN"), U(".org.cn"), U(".xj.cn"),
    U(".xn--fiqs8s"), U(".XN--FIQZ9S"), U(".") \o ZHONGGUO,
    U(".") \o ZHONGGUO_T, U(".com") }

\* the domain strings classify is applied to by the harness
HarnessDomains == {l \o t : l \in HarnessHeads, t \in HarnessTails}

(***************************************************************************)
(* State.                                                                  *)
(***************************************************************************)
VARIABLES
  wpc,       \* position of the Worker thread in run ("none": not started)
  infile,    \* the table behind Worker.infile
  i,         \* loop index of run
  bucket,    \* df["bucket"]
  exc,       \* str(exc) of the exception in flight, "" when none
  book,      \* sheets held by the open ExcelWriter
  bidx,      \* position of multi_sheet_write in ALL_BUCKETS
  file,      \* what is at Worker.outfile: [exists, valid, sheets]
  emitted,   \* every signal the Worker emitted, in order
  queue,     \* signals queued for the GUI thread, not yet delivered
  bar,       \* App.bar value
  run_btn,   \* App.run_btn enabled
  popup,     \* the last message box shown
  doneCalls, \* number of calls of App._done
  hpc,       \* harness: position
  domain,    \* harness: argument of classify
  flags,     \* harness: is_idn of each label of domain
  ret,       \* harness: classify(domain)
  retLower   \* harness: classify(domain.lower())

appVars == <<wpc, infile, i, bucket, exc, book, bidx, file, emitted, queue,
             bar, run_btn, popup, doneCalls>>
harnessVars == <<hpc, domain, flags, ret, retLower>>
vars == <<appVars, harnessVars>>

NoPopup == [title |-> "", text |-> "", total |-> 0, breakdown |-> <<>>]
NoFile == [readable |-> FALSE, hasColumn |-> FALSE, total |-> 0, seed |-> 0]

\* the destination before anything was written there
NoOutput == [exists |-> FALSE, valid |-> FALSE, sheets |-> <<>>]
\* a file that was created but is no readable workbook
BrokenOutput == [exists |-> TRUE, valid |-> FALSE, sheets |-> <<>>]

Progress(p) == [sig |-> "progress", value |-> p, error |-> "", counts |-> EmptyDict]
Finished(error, counts) ==
  [sig |-> "finished", value |-> 0, error |-> error, counts |-> counts]

\* state after App.__init__: no worker, Run enabled, nothing shown
AppInit ==
  /\ wpc = "none" /\ infile = NoFile /\ i = 0 /\ bucket = <<>> /\ exc = ""
  /\ book = <<>> /\ bidx = 1 /\ file = NoOutput /\ emitted = <<>> /\ queue = <<>>
  /\ bar = 0 /\ run_btn = TRUE /\ popup = NoPopup /\ doneCalls = 0

HarnessIdle ==
  /\ hpc = "off" /\ domain = <<>> /\ flags = <<>>
  /\ ret = Raise /\ retLower = Raise

Init == AppInit /\ HarnessIdle

\* signal.emit(...): recorded, and queued for the receiving thread
Emit(sig) == emitted' = Append(emitted, sig) /\ queue' = Append(queue, sig)

(***************************************************************************)
(* App: the main window (GUI thread).                                      *)
(***************************************************************************)
\* App._run, for the first click of Run: a missing input file is refused with
\* a warning; otherwise a Worker is created on the chosen file and started
_run ==
  /\ run_btn /\ wpc = "none"
  /\ \/ /\ popup' = [NoPopup EXCEPT !.title = "Error",
                                    !.text = "Select a valid input file."]
        /\ UNCHANGED <<wpc, infile, run_btn>>
     \/ /\ \E f \in InputFiles : infile' = f
        /\ run_btn' = FALSE
        /\ wpc' = "read"
        /\ UNCHANGED popup
  /\ UNCHANGED <<i, bucket, exc, book, bidx, file, emitted, queue, bar, doneCalls>>
  /\ UNCHANGED harnessVars

\* the lines of the summary: one per bucket of ALL_BUCKETS with a count
breakdown(counts) ==
  LET present == SelectSeq(ALL_BUCKETS, LAMBDA b : get(counts, b, 0) # 0)
  IN  Tup([k \in 1..Len(present) |-> <<present[k], get(counts, present[k], 0)>>])

\* App._done(outfile, error, counts)
_done(error, counts) ==
  /\ run_btn' = TRUE
  /\ bar' = 0
  /\ doneCalls' = doneCalls + 1
  /\ IF error # ""
       THEN popup' = [NoPopup EXCEPT !.title = "Failed", !.text = error]
       ELSE popup' = [title |-> "Done", text |-> "Workbook saved to:",
                      total |-> get(counts, "TOTAL", 0),
                      breakdown |-> breakdown(counts)]

\* the event loop of the GUI thread delivers the oldest queued signal to its
\* slot: progress to bar.setValue, finished to _done
Deliver ==
  /\ queue # <<>>
  /\ queue' = Tail(queue)
  /\ IF Head(queue).sig = "progress"
       THEN /\ bar' = Head(queue).value
            /\ UNCHANGED <<run_btn, popup, doneCalls>>
       ELSE _done(Head(queue).error, Head(queue).counts)
  /\ UNCHANGED <<wpc, infile, i, bucket, exc, book, bidx, file, emitted>>
  /\ UNCHANGED harnessVars

(***************************************************************************)
(* Worker.run (worker thread).                                             *)
(***************************************************************************)
\* pd.read_csv / pd.read_excel, the column check, total and the empty bucket
\* column; a file that cannot be parsed and a missing column both raise
Read ==
  /\ wpc = "read"
  /\ IF ~infile.readable
       THEN /\ exc' = "cannot parse the input file" /\ wpc' = "except"
            /\ UNCHANGED <<i, bucket>>
     ELSE IF ~infile.hasColumn
       THEN /\ exc' = "Input must contain a 'Domain Name' column."
            /\ wpc' = "except"
            /\ UNCHANGED <<i, bucket>>
     ELSE /\ bucket' = [k \in 1..infile.total |-> ""]
          /\ i' = 0
          /\ wpc' = "loop"
          /\ UNCHANGED exc
  /\ UNCHANGED <<infile, book, bidx, file, emitted, queue, bar, run_btn, popup, doneCalls>>
  /\ UNCHANGED harnessVars

\* one iteration of the for loop: classify the stripped cell, store the bucket,
\* and every 50th row emit the percentage
Loop ==
  /\ wpc = "loop" /\ i < infile.total
  /\ \E r \in {classify(strip(Cell(infile, i)))} :
         IF r.raised
           THEN /\ exc' = "classify raised" /\ wpc' = "except"
                /\ UNCHANGED <<i, bucket, emitted, queue>>
           ELSE /\ bucket' = [bucket EXCEPT ![i + 1] = r.bucket]
                /\ i' = i + 1
                /\ IF i % 50 = 0
                     THEN \E p \in percent(i, infile.total) : Emit(Progress(p))
                     ELSE UNCHANGED <<emitted, queue>>
                /\ UNCHANGED <<exc, wpc>>
  /\ UNCHANGED <<infile, book, bidx, file, bar, run_btn, popup, doneCalls>>
  /\ UNCHANGED harnessVars

\* self.progress.emit(100) after the loop
Emit100 ==
  /\ wpc = "loop" /\ i = infile.total
  /\ Emit(Progress(100))
  /\ wpc' = "open"
  /\ UNCHANGED <<infile, i, bucket, exc, book, bidx, file, bar, run_btn, popup, doneCalls>>
  /\ UNCHANGED harnessVars

\* multi_sheet_write: pd.ExcelWriter(dest, engine="openpyxl") opens an empty
\* workbook, or raises when the destination cannot be opened
WriterOpen ==
  /\ wpc = "open"
  /\ \/ /\ book' = <<>> /\ bidx' = 1 /\ wpc' = "sheets" /\ UNCHANGED exc
     \/ /\ exc' = "cannot open the destination" /\ wpc' = "except"
        /\ UNCHANGED <<book, bidx>>
  /\ UNCHANGED <<infile, i, bucket, file, emitted, queue, bar, run_btn, popup, doneCalls>>
  /\ UNCHANGED harnessVars

\* multi_sheet_write: one iteration of the loop over ALL_BUCKETS; to_excel adds
\* the sheet to the workbook, or raises and leaves the with block
WriteSheet ==
  /\ wpc = "sheets"
  /\ LET b == ALL_BUCKETS[bidx]
         sub == df_select(bucket, b)
         next == IF bidx = Len(ALL_BUCKETS) THEN "close" ELSE "sheets"
     IN  IF empty(sub)
           THEN /\ bidx' = bidx + 1 /\ wpc' = next /\ UNCHANGED <<book, exc>>
           ELSE \/ /\ book' = Append(book, [name |-> sheet_name(b), rows |-> sub])
                   /\ bidx' = bidx + 1 /\ wpc' = next /\ UNCHANGED exc
                \/ /\ exc' = "writing a sheet failed" /\ wpc' = "close"
                   /\ UNCHANGED <<book, bidx>>
  /\ UNCHANGED <<infile, i, bucket, file, emitted, queue, bar, run_btn, popup, doneCalls>>
  /\ UNCHANGED harnessVars

\* multi_sheet_write: leaving the with block, normally or by an exception, calls
\* ExcelWriter.close(), which saves the workbook to dest.  Saving creates the
\* file and then serialises the sheets: a workbook without a sheet makes openpyxl
\* raise IndexError, and a failing write leaves an unusable file.  An exception
\* raised by close replaces the one in flight.
WriterClose ==
  /\ wpc = "close"
  /\ IF book = <<>>
       THEN /\ file' = BrokenOutput
            /\ exc' = "At least one sheet must be visible"
       ELSE \/ /\ file' = [exists |-> TRUE, valid |-> TRUE, sheets |-> book]
               /\ UNCHANGED exc
            \/ /\ file' = BrokenOutput
               /\ exc' = "saving the workbook failed"
  /\ wpc' = IF exc' # "" THEN "except" ELSE "count"
  /\ UNCHANGED <<infile, i, bucket, book, bidx, emitted, queue, bar, run_btn, popup, doneCalls>>
  /\ UNCHANGED harnessVars

\* counts = value_counts().to_dict(); counts["TOTAL"] = total;
\* self.finished.emit(self.outfile, "", counts)
Count ==
  /\ wpc = "count"
  /\ Emit(Finished("", value_counts(bucket) @@ ("TOTAL" :> infile.total)))
  /\ wpc' = "done"
  /\ UNCHANGED <<infile, i, bucket, exc, book, bidx, file, bar, run_btn, popup, doneCalls>>
  /\ UNCHANGED harnessVars

Except_swallow ==
  /\ wpc = "except"
  /\ wpc' = "done"
  /\ UNCHANGED <<infile, i, bucket, exc, book, bidx, file, emitted, queue,
                 bar, run_btn, popup, doneCalls>>
  /\ UNCHANGED harnessVars

\* except Exception as exc: self.finished.emit(self.outfile, str(exc), {})
Except ==
  /\ wpc = "except"
  /\ Emit(Finished(exc, EmptyDict))
  /\ wpc' = "done"
  /\ UNCHANGED <<infile, i, bucket, exc, book, bidx, file, bar, run_btn, popup, doneCalls>>
  /\ UNCHANGED harnessVars

Next ==
  \/ _run
  \/ Deliver
  \/ Read
  \/ Loop
  \/ Emit100
  \/ WriterOpen
  \/ WriteSheet
  \/ WriterClose
  \/ Count
  \/ Except

Spec == Init /\ [][Next]_vars

(***************************************************************************)
(* Harness of the pure functions: is_idn on each label of a domain string, *)
(* classify on the string, classify on its lower-cased form.               *)
(***************************************************************************)
HarnessInit ==
  /\ AppInit
  /\ hpc = "start" /\ domain \in HarnessDomains /\ flags = <<>>
  /\ ret = Raise /\ retLower = Raise

CallIsIdn ==
  /\ hpc = "start"
  /\ flags' = Tup([k \in 1..Len(Split(domain)) |-> is_idn(Split(domain)[k])])
  /\ hpc' = "labelled"
  /\ UNCHANGED <<domain, ret, retLower>>
  /\ UNCHANGED appVars

CallClassify ==
  /\ hpc = "labelled"
  /\ ret' = classify(domain)
  /\ hpc' = "classified"
  /\ UNCHANGED <<domain, flags, retLower>>
  /\ UNCHANGED appVars

CallClassifyLower ==
  /\ hpc = "classified"
  /\ retLower' = classify(lower(domain))
  /\ hpc' = "both"
  /\ UNCHANGED <<domain, flags, ret>>
  /\ UNCHANGED appVars

HarnessNext ==
  \/ CallIsIdn
  \/ CallClassify
  \/ CallClassifyLower

SpecClassify == HarnessInit /\ [][HarnessNext]_vars

(***************************************************************************)
(* Properties.                                                             *)
(***************************************************************************)
\* vocabulary of the properties, stated on characters and on the signal log
BucketSet == Range(ALL_BUCKETS)

X_OR_x == {Ord("x"), Ord("X")}
N_OR_n == {Ord("n"), Ord("N")}

HasNonAscii(label) == \E k \in 1..Len(label) : label[k] >= 128

HasNonPrintable(label) == \E k \in 1..Len(label) : label[k] \notin 32..126

\* the label starts with x or X, n or N, and two hyphens
PunyPrefixed(label) ==
  /\ Len(label) >= 4
  /\ label[1] \in X_OR_x
  /\ label[2] \in N_OR_n
  /\ label[3] = HYPHEN /\ label[4] = HYPHEN

Internationalized(label) == HasNonAscii(label) \/ PunyPrefixed(label)

Classified == hpc \in {"classified", "both"}

\* suffix and second-level label classify extracts from the harness domain
Extracted == extract(lower(domain))

UnderCn(suffix) ==
  \/ suffix = CN
  \/ Len(suffix) > 3 /\ SubSeq(suffix, Len(suffix) - 2, Len(suffix)) = DOT_CN

IsGenericZone(suffix) == suffix \in {COM_CN, NET_CN, ORG_CN}

IsPunyTld(suffix) == suffix \in {XN_FIQS8S, XN_FIQZ9S}

ProgressValues ==
  LET ps == SelectSeq(emitted, LAMBDA e : e.sig = "progress")
  IN  Tup([k \in 1..Len(ps) |-> ps[k].value])

FinishedAt == {k \in 1..Len(emitted) : emitted[k].sig = "finished"}

RECURSIVE SumSeq(_)
SumSeq(q) == IF q = <<>> THEN 0 ELSE Head(q) + SumSeq(Tail(q))

\* C1: classify returns, without raising, exactly one member of the nine-element
\* bucket set, for every domain string (empty, suffix-less and malformed ones
\* included), in its given and in its lower-cased spelling.
ClassifyReturnsOneBucket ==
  /\ Cardinality(BucketSet) = 9
  /\ Classified => ~ret.raised /\ ret.bucket \in BucketSet
  /\ hpc = "both" => ~retLower.raised /\ retLower.bucket \in BucketSet

\* a malformed, suffix-less string (re-encoding fails) was classified
ClassifyMalformedWitness ==
  /\ Classified
  /\ domain # <<>>
  /\ Extracted.suffix = <<>>
  /\ ~idna_encode(domain).ok
  /\ ret = Return("UNCLASSIFIED")

\* C2: a domain whose extracted suffix is com.cn, net.cn or org.cn gets the
\* generic bucket of that suffix whatever its second-level label is, and never
\* ASCII.CN or IDN.CN.
GenericZoneWins ==
  Classified =>
    /\ Extracted.suffix = COM_CN => ret.bucket = ".COM.CN"
    /\ Extracted.suffix = NET_CN => ret.bucket = ".NET.CN"
    /\ Extracted.suffix = ORG_CN => ret.bucket = ".ORG.CN"

\* an xn-- prefixed label under com.cn went to .COM.CN
GenericZoneWitness ==
  /\ Classified
  /\ Extracted.suffix = COM_CN
  /\ PunyPrefixed(Extracted.domain)
  /\ ret.bucket = ".COM.CN"

\* C3: changing only the letter case of the input never changes the bucket:
\* classify(d) = classify(d.lower()).
ClassifyCaseInsensitive ==
  hpc = "both" => ret.bucket = retLower.bucket

\* C9: IDN.IDN is returned exactly when rules 1-3 do not match the extracted
\* suffix, the re-encoding of the whole domain succeeds, the re-encoded suffix
\* is xn--fiqs8s or xn--fiqz9s and the re-encoded second-level label is
\* internationalized; a failing re-encoding is swallowed and gives UNCLASSIFIED;
\* a native-script label under a native-script top-level domain that re-encodes
\* gives IDN.IDN, an encoded label under xn--fiqs8s gives IDN.XN--FIQS8S.
FullyNativeRule ==
  Classified =>
    LET suffix == Extracted.suffix
        noRule == ~IsGenericZone(suffix) /\ ~IsPunyTld(suffix) /\ ~UnderCn(suffix)
        enc == idna_encode(domain)
        ext2 == extract(enc.ace)
        labels == Split(domain)
    IN  /\ ret.bucket = "IDN.IDN" <=>
             /\ noRule
             /\ enc.ok
             /\ IsPunyTld(ext2.suffix)
             /\ Internationalized(ext2.domain)
        /\ noRule /\ ~enc.ok => ret = Return("UNCLASSIFIED")
        /\ ( /\ Len(labels) = 2
             /\ labels[2] \in {ZHONGGUO, ZHONGGUO_T}
             /\ HasNonAscii(labels[1])
             /\ enc.ok ) => ret.bucket = "IDN.IDN"
        /\ domain = LIZI_ZHONGGUO => ret.bucket = "IDN.IDN"
        /\ domain = XN_LIZI_ZHONGGUO => ret.bucket = "IDN.XN--FIQS8S"

\* the native-script name under the native-script top-level domain was classified
FullyNativeWitness ==
  /\ Classified
  /\ domain = LIZI_ZHONGGUO
  /\ ret.bucket = "IDN.IDN"

\* what rules 2 and 3 return for the extracted label, given the script test
RuleBuckets(intl) ==
  /\ IsPunyTld(Extracted.suffix) =>
       ret.bucket = IF intl THEN "IDN.XN--FIQS8S" ELSE "ASCII.XN--FIQS8S"
  /\ UnderCn(Extracted.suffix) /\ ~IsGenericZone(Extracted.suffix) =>
       ret.bucket = IF intl THEN "IDN.CN" ELSE "ASCII.CN"

\* C10 as stated: is_idn(label) holds exactly when the label has a character
\* outside printable ASCII or starts with xn-- in any letter case, and rules 2
\* and 3 choose the IDN bucket exactly then.
IsIdnOutsidePrintable ==
  /\ hpc # "start" =>
       \A k \in 1..Len(flags) :
         flags[k] <=> (HasNonPrintable(Split(domain)[k]) \/ PunyPrefixed(Split(domain)[k]))
  /\ Classified =>
       RuleBuckets(HasNonPrintable(Extracted.domain) \/ PunyPrefixed(Extracted.domain))

\* C10 (amended): is_idn(label) holds exactly when the label has a non-ASCII
\* character (code point 128 or above) or starts with xn-- in any letter case;
\* an ASCII control character does not make a label internationalized; rules 2
\* and 3 choose the IDN bucket exactly when is_idn holds of the extracted label.
IsIdnNonAsciiOrPuny ==
  /\ hpc # "start" =>
       \A k \in 1..Len(flags) : flags[k] <=> Internationalized(Split(domain)[k])
  /\ Classified => RuleBuckets(Internationalized(Extracted.domain))

\* a label with a control character, ASCII otherwise, went to ASCII.CN
IsIdnControlCharWitness ==
  /\ Classified
  /\ UnderCn(Extracted.suffix)
  /\ HasNonPrintable(Extracted.domain)
  /\ ~HasNonAscii(Extracted.domain)
  /\ flags[1] = FALSE
  /\ ret.bucket = "ASCII.CN"

FinishedExactlyOnce ==
  /\ Cardinality(FinishedAt) <= 1
  /\ \A k \in FinishedAt : k = Len(emitted) /\ wpc = "done"
  /\ wpc = "done" => FinishedAt # {}
  /\ \A k \in FinishedAt :
       \/ emitted[k].error = "" /\ "TOTAL" \in DOMAIN emitted[k].counts
       \/ emitted[k].error # "" /\ DOMAIN emitted[k].counts = {}
  /\ doneCalls <= 1
  /\ doneCalls = 1 => wpc = "done" /\ queue = <<>>
  /\ wpc = "done" /\ queue = <<>> => doneCalls = 1

\* a run that failed while writing a sheet, after emitting progress, was reported
FinishedAfterWriteFailureWitness ==
  /\ doneCalls = 1
  /\ popup.title = "Failed"
  /\ popup.text = "writing a sheet failed"
  /\ Len(ProgressValues) >= 2

\* C6: whenever a run ends in failure nothing was written at the destination,
\* and whenever it ends in success the destination holds every sheet.
OutputAllOrNothing ==
  wpc = "done" =>
    LET e == emitted[Len(emitted)]
    IN  /\ e.error # "" => ~file.exists
        /\ e.error = "" => file.exists /\ file.valid /\ file.sheets = book

\* C7: on a successful run the per-bucket counts are keyed by buckets of
\* ALL_BUCKETS only and add up to counts["TOTAL"], the number of input rows;
\* the lines of the summary, in ALL_BUCKETS order, add up to the total shown.
CountsSumToTotal ==
  /\ \A k \in FinishedAt :
       emitted[k].error = "" =>
         LET c == emitted[k].counts
         IN  /\ (DOMAIN c) \ {"TOTAL"} \subseteq BucketSet
             /\ c["TOTAL"] = infile.total
             /\ SumSeq(Tup([j \in 1..Len(ALL_BUCKETS) |-> get(c, ALL_BUCKETS[j], 0)]))
                  = c["TOTAL"]
  /\ popup.title = "Done" =>
       LET lines == popup.breakdown
       IN  /\ popup.total = infile.total
           /\ SumSeq(Tup([j \in 1..Len(lines) |-> lines[j][2]])) = popup.total
           /\ \A j \in 1..Len(lines) : lines[j][1] \in BucketSet /\ lines[j][2] > 0
           /\ \A j1, j2 \in 1..Len(lines) :
                j1 < j2 =>
                  \E a, b \in 1..Len(ALL_BUCKETS) :
                    a < b /\ ALL_BUCKETS[a] = lines[j1][1] /\ ALL_BUCKETS[b] = lines[j2][1]

\* the summary of a run whose rows fell in all nine buckets was shown
CountsWitness ==
  /\ popup.title = "Done"
  /\ Len(popup.breakdown) = Len(ALL_BUCKETS)
  /\ popup.total > Len(ALL_BUCKETS)

\* the sheets bk are those of the non-empty buckets, in ALL_BUCKETS order, and
\* partition the rows in their original order
SheetsPartition(bk) ==
  /\ \A s \in 1..Len(bk) : \E j \in 1..Len(ALL_BUCKETS) : bk[s].name = sheet_name(ALL_BUCKETS[j])
  /\ \A s, t \in 1..Len(bk) :
       s < t => \E a, b \in 1..Len(ALL_BUCKETS) :
                  /\ a < b
                  /\ bk[s].name = sheet_name(ALL_BUCKETS[a])
                  /\ bk[t].name = sheet_name(ALL_BUCKETS[b])
  /\ \A j \in 1..Len(ALL_BUCKETS) :
       (\E s \in 1..Len(bk) : bk[s].name = sheet_name(ALL_BUCKETS[j]))
         <=> (\E r \in 1..Len(bucket) : bucket[r] = ALL_BUCKETS[j])
  /\ \A s \in 1..Len(bk) : Len(bk[s].rows) > 0
  /\ \A r \in 1..Len(bucket) :
       /\ Cardinality({s \in 1..Len(bk) : \E q \in 1..Len(bk[s].rows) : bk[s].rows[q] = r}) = 1
       /\ \A s \in 1..Len(bk) :
            (\E q \in 1..Len(bk[s].rows) : bk[s].rows[q] = r)
              => bk[s].name = sheet_name(bucket[r])
  /\ \A s \in 1..Len(bk) :
       \A q1, q2 \in 1..Len(bk[s].rows) : q1 < q2 => bk[s].rows[q1] < bk[s].rows[q2]

\* C8: multi_sheet_write emits one sheet for exactly the buckets of ALL_BUCKETS
\* that have a row, in ALL_BUCKETS order; every row is in exactly one sheet, the
\* one named after its bucket (the nine names cut to 31 characters stay
\* distinct), and rows keep their relative order inside a sheet; the workbook
\* saved is made of these sheets.
SheetsPartitionRows ==
  /\ \A a, b \in 1..Len(ALL_BUCKETS) :
       a # b => sheet_name(ALL_BUCKETS[a]) # sheet_name(ALL_BUCKETS[b])
  /\ wpc \in {"close", "count", "done"} /\ exc = "" => SheetsPartition(book)
  /\ wpc \in {"count", "done"} /\ exc = "" => file.valid /\ file.sheets = book

\* every bucket was visited without a failure: two sheets, one holding two rows
SheetsWitness ==
  /\ wpc = "close" /\ exc = ""
  /\ Len(book) = 2
  /\ Len(book[1].rows) = 2

====
